---- MODULE Spec2Model ----
(***************************************************************************)
(* Teller -> Supabase sync backend (server.js): the /sync (full backfill), *)
(* /sync-delta (incremental) and /save-token handlers, the upstream        *)
(* Transaction Source they pull from and the Record / Cursor stores they   *)
(* write to.                                                               *)
(*                                                                         *)
(* A handler is an async function: it runs synchronously from one await to *)
(* the next.  pc names the await a request is suspended at, and one action *)
(* is the completion of that await together with the synchronous code that *)
(* follows it up to the next await (or to the response).                   *)
(*                                                                         *)
(* Transaction ids of an account are modelled as 1, 2, 3, ... in the order *)
(* the upstream posts them (a larger id is a newer transaction); 0 stands  *)
(* for "no id" (null / no cursor row).                                     *)
(*                                                                         *)
(* A Supabase call never rejects: it resolves to {data, error} (the code   *)
(* destructures `error` at lines 111, 192, 208).  Where the code discards  *)
(* the result (lines 136, 139, 155, 172, 221, 238) a failed write is       *)
(* silently skipped; where it tests it (lines 198, 213) the error is       *)
(* thrown to the handler's catch.  An upstream call (tellerGET) throws on  *)
(* a non-2xx status, a transport failure or the 30 s timeout.              *)
(***************************************************************************)
EXTENDS Integers, Sequences, FiniteSets, TLC

\* ---------------------------------------------------------------- bounds
NumAccounts == 2      \* accounts the upstream lists for the credential
MaxTx == 2            \* transactions the upstream posts in all
MaxFaults == 1        \* failing upstream / store calls per behaviour

\* ------------------------------------------------------ program constants
DefaultCount == 500   \* `count = 500` default of /sync and of fetchTransactions
DeltaCount == 500     \* `count: 500` passed by /sync-delta

NoTx == 0             \* null transaction id / absent cursor row
NoInst == 0           \* a.institution absent

Accounts == 1..NumAccounts
Reqs == {1, 2}        \* request slots of the server
Serial == {1}         \* slots used when invocations do not overlap

\* the account list the upstream returns, in listing order
AccountList == [i \in 1..NumAccounts |-> i]

\* a?.institution?.id : account 1 carries an institution, the others none
InstOf(a) == IF a = 1 THEN 1 ELSE NoInst

\* request body values of `count` tried for /sync: a small page and the default
Counts == {1, DefaultCount}
\* request body values of the access token: absent, accepted or rejected upstream
Tokens == {"none", "good", "bad"}
\* tokens posted to /save-token
SavedTokens == {"good"}

VARIABLES
  upstream,    \* upstream[a]: number of transactions posted for account a (ids 1..upstream[a])
  txStore,     \* txStore[a]: ids of the transaction rows of account a in the Record Store
  acctStore,   \* account rows in the Record Store
  instStore,   \* institution rows in the Record Store
  cursor,      \* teller_sync_state: cursor[a] = last_seen_txn_id of a, NoTx if no row
  savedToken,  \* teller_tokens: most recently saved access token ("none" if no row)
  faults,      \* failing calls so far
  req,         \* req[r]: the handler invocation in slot r
  owed         \* history: owed[a] = the transactions fetched by the last delta pass
               \* of a in which an upsert failed ({} if none, or once a's upstream
               \* data changed or a full pass ran on a)

vars == <<upstream, txStore, acctStore, instStore, cursor, savedToken, faults, req, owed>>

\* ------------------------------------------------------------- helpers
Min(a, b) == IF a < b THEN a ELSE b

\* [...txns].reverse(): the element at index i moves to index length + 1 - i
Reverse(s) == [i \in 1..Len(s) |-> s[Len(s) + 1 - i]]

NoResp == [status |-> 0]

IdleReq ==
  [pc |-> "idle", kind |-> "none", token |-> "none", count |-> 0,
   accounts |-> <<>>, idx |-> 0, fromId |-> NoTx, txns |-> <<>>,
   order |-> <<>>, j |-> 0, total |-> 0, resp |-> NoResp,
   \* history of the invocation, read by the properties only
   visited |-> {},      \* accounts whose pass has begun
   errs |-> {},         \* accounts with a failed call in their pass
   log |-> <<>>,        \* store writes issued in the current pass, in order
   cur0 |-> NoTx,       \* cursor of the current account when its pass began
   txFailed |-> FALSE,  \* a transaction upsert of the current pass failed
   bad |-> FALSE,       \* some call of the current pass failed
   curs0 |-> [a \in Accounts |-> NoTx],  \* the cursors when the run began
   quiet |-> TRUE,      \* no call failed and nothing was posted since the run began
   second |-> FALSE,    \* the run began right after a quiet successful delta run
   asked |-> 0,         \* the `count` of the request body (0: none given)
   nTx |-> 0]           \* transaction upserts issued by the run

\* the transactions of account a the upstream returns for ?count=&from_id= :
\* those newer than fromId (all of them without from_id), newest first,
\* at most count of them (all of them without count)
Listing(a, cnt, fromId) ==
  LET hi == upstream[a]
      lo == IF fromId = NoTx THEN 0 ELSE fromId
      avail == IF hi > lo THEN hi - lo ELSE 0
      n == IF cnt = 0 THEN avail ELSE Min(cnt, avail)
  IN [k \in 1..n |-> hi - k + 1]

\* fetchTransactions that never sends from_id
fetchTransactions_NoFromId(a, cnt, fromId) == Listing(a, cnt, NoTx)

\* fetchTransactions: count and from_id are sent only when truthy
fetchTransactions(a, cnt, fromId) == Listing(a, cnt, fromId)

Init ==
  /\ upstream = [a \in Accounts |-> 0]
  /\ txStore = [a \in Accounts |-> {}]
  /\ acctStore = {}
  /\ instStore = {}
  /\ cursor = [a \in Accounts |-> NoTx]
  /\ savedToken = "none"
  /\ faults = 0
  /\ req = [r \in Reqs |-> IdleReq]
  /\ owed = [a \in Accounts |-> {}]

\* ------------------------------------------------ responses and loop steps
\* res.json({ ok: true, accounts, transactions }) / ({ ok: true, new_transactions })
OkBody(q) ==
  IF q.kind = "full"
  THEN [status |-> 200, ok |-> TRUE, accounts |-> Len(q.accounts), transactions |-> q.total]
  ELSE [status |-> 200, ok |-> TRUE, new_transactions |-> q.total]

\* res.status(code).json({ error }): the error is the message of what was thrown
\* ("teller" for `Teller ${status}: ...`, "supabase" for a store error) or the
\* handler's own "missing token" text
ErrBody(code, msg) == [status |-> code, error |-> msg]

\* the response ends the invocation: its locals are dead from here on
Respond(q, body) ==
  [q EXCEPT !.pc = "done", !.resp = body,
            !.token = "none", !.count = 0, !.idx = 0, !.fromId = NoTx,
            !.txns = <<>>, !.order = <<>>, !.j = 0, !.total = 0,
            !.log = <<>>, !.cur0 = NoTx, !.txFailed = FALSE, !.bad = FALSE]

\* a catch that swallows the error and leaves the handler where it was
Catch_Swallow(q, msg) == q

\* catch (e) { res.status(500).json({ error: String(e.message || e) }) }
\* a failure that is caught without answering the request
Catch_Hang(q, msg) == [q EXCEPT !.pc = "hang"]

Catch(q, msg) == Respond(q, ErrBody(500, msg))

\* the top of the body of `for (const a of accounts)` for the i-th account, up
\* to its first await
EnterAccount(q, i) ==
  LET a == q.accounts[i] IN
  [q EXCEPT !.idx = i,
            !.pc = IF q.kind = "delta" THEN "readcur"
                   ELSE IF InstOf(a) # NoInst THEN "inst" ELSE "acct",
            !.fromId = NoTx, !.txns = <<>>, !.order = <<>>, !.j = 0,
            !.visited = @ \cup {a}, !.log = <<>>, !.cur0 = cursor[a],
            !.txFailed = FALSE, !.bad = FALSE]

\* the end of the loop body: the next account, or the response after the loop
NextAccount(q) ==
  IF q.idx < Len(q.accounts) THEN EnterAccount(q, q.idx + 1)
  ELSE Respond(q, OkBody(q))

\* a call may fail while the fault budget lasts
MayFail(ok) == ok \/ faults < MaxFaults
Count(ok) == IF ok THEN faults ELSE faults + 1

Acct(q) == q.accounts[q.idx]

\* history: the outcome of a call made before the account loop / within a pass
Noted(q, ok) == IF ok THEN q ELSE [q EXCEPT !.quiet = FALSE]
NotedPass(q, ok) ==
  IF ok THEN q
  ELSE [q EXCEPT !.quiet = FALSE, !.bad = TRUE, !.errs = @ \cup {Acct(q)}]

Range(s) == {s[i] : i \in DOMAIN s}

\* ------------------------------------------------------------ environment
\* the bank posts one more transaction on account a
Posted == LET RECURSIVE Sum(_)
              Sum(n) == IF n = 0 THEN 0 ELSE upstream[n] + Sum(n - 1)
          IN Sum(NumAccounts)

Post(a) ==
  /\ Posted < MaxTx
  /\ upstream' = [upstream EXCEPT ![a] = @ + 1]
  /\ req' = [r \in Reqs |-> IF req[r].pc = "idle" THEN req[r]
                            ELSE [req[r] EXCEPT !.quiet = FALSE]]
  /\ owed' = [owed EXCEPT ![a] = {}]
  /\ UNCHANGED <<txStore, acctStore, instStore, cursor, savedToken, faults>>

\* ------------------------------------------------------------ /save-token
SaveToken(tok, ok) ==
  /\ tok # "none"    \* if (!accessToken) return res.status(400)
  /\ MayFail(ok)
  /\ savedToken' = IF ok THEN tok ELSE savedToken
  /\ faults' = Count(ok)
  /\ UNCHANGED <<upstream, txStore, acctStore, instStore, cursor, req, owed>>

\* ------------------------------------------------------------------ /sync
SyncStart(r, tok, cnt) ==
  /\ req[r].pc \in {"idle", "done"}
  /\ LET q == [IdleReq EXCEPT !.kind = "full", !.token = tok, !.count = cnt,
                              !.asked = cnt, !.curs0 = cursor] IN
     req' = [req EXCEPT ![r] =
               IF tok = "none" THEN Respond(q, ErrBody(400, "missing token"))
               ELSE [q EXCEPT !.pc = "list"]]
  /\ UNCHANGED <<upstream, txStore, acctStore, instStore, cursor, savedToken, faults, owed>>

\* a listing that does not reject a bad token
ListAccounts_AnyToken(r, ok) ==
  /\ req[r].pc = "list"
  /\ MayFail(ok)
  /\ LET q == Noted(req[r], ok) IN
     req' = [req EXCEPT ![r] =
               IF ok
               THEN LET q1 == [q EXCEPT !.accounts = AccountList] IN
                    IF Len(q1.accounts) = 0 THEN Respond(q1, OkBody(q1))
                    ELSE EnterAccount(q1, 1)
               ELSE Catch(q, "teller")]
  /\ faults' = Count(ok)
  /\ UNCHANGED <<upstream, txStore, acctStore, instStore, cursor, savedToken, owed>>

\* await listAccounts(accessToken), for either handler
ListAccounts(r, ok) ==
  /\ req[r].pc = "list"
  /\ MayFail(ok)
  /\ LET q == Noted(req[r], ok) IN
     req' = [req EXCEPT ![r] =
               IF ok /\ q.token = "good"
               THEN LET q1 == [q EXCEPT !.accounts = AccountList] IN
                    IF Len(q1.accounts) = 0 THEN Respond(q1, OkBody(q1))
                    ELSE EnterAccount(q1, 1)
               ELSE Catch(q, "teller")]
  /\ faults' = Count(ok)
  /\ UNCHANGED <<upstream, txStore, acctStore, instStore, cursor, savedToken, owed>>

\* if (instId && instName) await supabase.rpc("upsert_institution")
SyncUpsertInstitution(r, ok) ==
  /\ req[r].pc = "inst" /\ req[r].kind = "full"
  /\ MayFail(ok)
  /\ instStore' = IF ok THEN instStore \cup {InstOf(Acct(req[r]))} ELSE instStore
  /\ req' = [req EXCEPT ![r] = [NotedPass(req[r], ok) EXCEPT !.pc = "acct"]]
  /\ faults' = Count(ok)
  /\ UNCHANGED <<upstream, txStore, acctStore, cursor, savedToken, owed>>

\* await supabase.rpc("upsert_account")
SyncUpsertAccount(r, ok) ==
  /\ req[r].pc = "acct" /\ req[r].kind = "full"
  /\ MayFail(ok)
  /\ acctStore' = IF ok THEN acctStore \cup {Acct(req[r])} ELSE acctStore
  /\ req' = [req EXCEPT ![r] = [NotedPass(req[r], ok) EXCEPT !.pc = "fetch"]]
  /\ faults' = Count(ok)
  /\ UNCHANGED <<upstream, txStore, instStore, cursor, savedToken, owed>>

\* const txns = await fetchTransactions(a.id, accessToken, { count }); txnTotal += txns.length
SyncFetch(r, ok) ==
  /\ req[r].pc = "fetch" /\ req[r].kind = "full"
  /\ MayFail(ok)
  /\ LET q == NotedPass(req[r], ok)
         t == fetchTransactions(Acct(q), q.count, NoTx) IN
     /\ req' = [req EXCEPT ![r] =
                  IF ~ok THEN Catch(q, "teller")
                  ELSE LET q1 == [q EXCEPT !.txns = t, !.order = t,
                                           !.total = @ + Len(t)] IN
                       IF Len(t) > 0 THEN [q1 EXCEPT !.pc = "upsert", !.j = 1]
                       ELSE NextAccount(q1)]
     /\ owed' = [owed EXCEPT ![Acct(q)] = {}]
  /\ faults' = Count(ok)
  /\ UNCHANGED <<upstream, txStore, acctStore, instStore, cursor, savedToken>>

\* one iteration of `for (const t of txns)`: await supabase.rpc("upsert_transaction")
SyncUpsertTransaction(r, ok) ==
  /\ req[r].pc = "upsert" /\ req[r].kind = "full"
  /\ MayFail(ok)
  /\ LET q == NotedPass(req[r], ok)
         t == q.order[q.j] IN
     /\ txStore' = IF ok THEN [txStore EXCEPT ![Acct(q)] = @ \cup {t}] ELSE txStore
     /\ req' = [req EXCEPT ![r] =
                  [q EXCEPT !.log = Append(@, <<"tx", t>>),
                            !.txFailed = @ \/ ~ok,
                            !.nTx = @ + 1,
                            !.j = @ + 1,
                            !.pc = IF q.j < Len(q.order) THEN "upsert" ELSE "cursor"]]
  /\ faults' = Count(ok)
  /\ UNCHANGED <<upstream, acctStore, instStore, cursor, savedToken, owed>>

\* the cursor taken from the last element of the fetch
SyncNewest_Last(txns) == txns[Len(txns)]

\* if (txns.length) { const newest = txns[0].id; ... }
SyncNewest(txns) == txns[1]

\* await supabase.from("teller_sync_state").upsert(...), then the next account
SyncWriteCursor(r, ok) ==
  /\ req[r].pc = "cursor" /\ req[r].kind = "full"
  /\ MayFail(ok)
  /\ LET q == NotedPass(req[r], ok)
         newest == SyncNewest(q.txns) IN
     /\ cursor' = IF ok THEN [cursor EXCEPT ![Acct(q)] = newest] ELSE cursor
     /\ req' = [req EXCEPT ![r] = NextAccount(q)]
  /\ faults' = Count(ok)
  /\ UNCHANGED <<upstream, txStore, acctStore, instStore, savedToken, owed>>

\* ------------------------------------------------------------ /sync-delta
\* cnt is the `count` of the request body, which the handler never reads
DeltaStart(r, tok, cnt) ==
  /\ req[r].pc \in {"idle", "done"}
  /\ LET old == req[r] IN
     req' = [req EXCEPT ![r] =
               [IdleReq EXCEPT !.kind = "delta", !.token = tok, !.curs0 = cursor,
                               !.asked = cnt,
                               !.second = /\ old.pc = "done" /\ old.kind = "delta"
                                          /\ old.quiet /\ old.resp.status = 200,
                               !.pc = IF tok = "none" THEN "token" ELSE "list"]]
  /\ UNCHANGED <<upstream, txStore, acctStore, instStore, cursor, savedToken, faults, owed>>

\* the most recently saved token is read when the body carries none
DeltaReadToken(r, ok) ==
  /\ req[r].pc = "token"
  /\ MayFail(ok)
  /\ LET q == Noted(req[r], ok) IN
     req' = [req EXCEPT ![r] =
               IF ~ok THEN Catch(q, "supabase")
               ELSE IF savedToken = "none" THEN Respond(q, ErrBody(400, "missing token"))
               ELSE [q EXCEPT !.token = savedToken, !.pc = "list"]]
  /\ faults' = Count(ok)
  /\ UNCHANGED <<upstream, txStore, acctStore, instStore, cursor, savedToken, owed>>

\* read cursor; if (stateErr) throw stateErr; fromId = state?.last_seen_txn_id || null
DeltaReadCursor(r, ok) ==
  /\ req[r].pc = "readcur" /\ req[r].kind = "delta"
  /\ MayFail(ok)
  /\ LET q == NotedPass(req[r], ok) IN
     req' = [req EXCEPT ![r] =
               IF ~ok THEN Catch(q, "supabase")
               ELSE [q EXCEPT !.fromId = cursor[Acct(q)], !.pc = "fetch"]]
  /\ faults' = Count(ok)
  /\ UNCHANGED <<upstream, txStore, acctStore, instStore, cursor, savedToken, owed>>

\* the fetched order kept, without the reversal
DeltaOrdered_AsFetched(txns) == txns

\* insert oldest -> newest: const ordered = [...txns].reverse()
DeltaOrdered(txns) == Reverse(txns)

\* a fetch whose failure undoes the cursor writes the run made so far
DeltaFetch_Rollback(r, ok) ==
  /\ req[r].pc = "fetch" /\ req[r].kind = "delta"
  /\ MayFail(ok)
  /\ LET q == NotedPass(req[r], ok)
         t == fetchTransactions(Acct(q), DeltaCount, q.fromId) IN
     req' = [req EXCEPT ![r] =
               IF ~ok THEN Catch(q, "teller")
               ELSE LET q1 == [q EXCEPT !.txns = t, !.order = Reverse(t)] IN
                    IF Len(t) > 0 THEN [q1 EXCEPT !.pc = "upsert", !.j = 1]
                    ELSE NextAccount(q1)]
  /\ cursor' = IF ok THEN cursor ELSE req[r].curs0
  /\ faults' = Count(ok)
  /\ UNCHANGED <<upstream, txStore, acctStore, instStore, savedToken, owed>>

\* const txns = await fetchTransactions(a.id, accessToken, { fromId, count: 500 })
DeltaFetch(r, ok) ==
  /\ req[r].pc = "fetch" /\ req[r].kind = "delta"
  /\ MayFail(ok)
  /\ LET q == NotedPass(req[r], ok)
         t == fetchTransactions(Acct(q), DeltaCount, q.fromId) IN
     req' = [req EXCEPT ![r] =
               IF ~ok THEN Catch(q, "teller")
               ELSE LET q1 == [q EXCEPT !.txns = t, !.order = DeltaOrdered(t)] IN
                    IF Len(t) > 0 THEN [q1 EXCEPT !.pc = "upsert", !.j = 1]
                    ELSE NextAccount(q1)]
  /\ faults' = Count(ok)
  /\ UNCHANGED <<upstream, txStore, acctStore, instStore, cursor, savedToken, owed>>

\* an upsert loop that moves the cursor along with every transaction it writes
DeltaUpsertTransaction_WithCursor(r, ok) ==
  /\ req[r].pc = "upsert" /\ req[r].kind = "delta"
  /\ MayFail(ok)
  /\ LET q == NotedPass(req[r], ok)
         a == Acct(q)
         t == q.order[q.j] IN
     /\ txStore' = IF ok THEN [txStore EXCEPT ![a] = @ \cup {t}] ELSE txStore
     /\ cursor' = IF ok THEN [cursor EXCEPT ![a] = t] ELSE cursor
     /\ req' = [req EXCEPT ![r] =
                  [q EXCEPT !.log = Append(@, <<"tx", t>>),
                            !.txFailed = @ \/ ~ok,
                            !.nTx = @ + 1,
                            !.total = @ + 1,
                            !.j = @ + 1,
                            !.pc = IF q.j < Len(q.order) THEN "upsert" ELSE "cursor"]]
     /\ owed' = IF ~ok /\ q.txns[1] = upstream[a]
                THEN [owed EXCEPT ![a] = Range(q.txns)] ELSE owed
  /\ faults' = Count(ok)
  /\ UNCHANGED <<upstream, acctStore, instStore, savedToken>>

\* one iteration of `for (const t of ordered)`: the upsert_transaction rpc, inserted++
DeltaUpsertTransaction(r, ok) ==
  /\ req[r].pc = "upsert" /\ req[r].kind = "delta"
  /\ MayFail(ok)
  /\ LET q == NotedPass(req[r], ok)
         a == Acct(q)
         t == q.order[q.j] IN
     /\ txStore' = IF ok THEN [txStore EXCEPT ![a] = @ \cup {t}] ELSE txStore
     /\ req' = [req EXCEPT ![r] =
                  [q EXCEPT !.log = Append(@, <<"tx", t>>),
                            !.txFailed = @ \/ ~ok,
                            !.nTx = @ + 1,
                            !.total = @ + 1,
                            !.j = @ + 1,
                            !.pc = IF q.j < Len(q.order) THEN "upsert" ELSE "cursor"]]
     /\ owed' = IF ~ok /\ q.txns[1] = upstream[a]
                THEN [owed EXCEPT ![a] = Range(q.txns)] ELSE owed
  /\ faults' = Count(ok)
  /\ UNCHANGED <<upstream, acctStore, instStore, cursor, savedToken>>

\* the cursor taken from the last element of the fetch
DeltaNewest_Last(txns) == txns[Len(txns)]

\* if (txns.length) { const newest = txns[0].id; ... }
DeltaNewest(txns) == txns[1]

\* await supabase.from("teller_sync_state").upsert(...), then the next account
DeltaWriteCursor(r, ok) ==
  /\ req[r].pc = "cursor" /\ req[r].kind = "delta"
  /\ MayFail(ok)
  /\ LET q == NotedPass(req[r], ok)
         newest == DeltaNewest(q.txns) IN
     /\ cursor' = IF ok THEN [cursor EXCEPT ![Acct(q)] = newest] ELSE cursor
     /\ req' = [req EXCEPT ![r] = NextAccount(q)]
  /\ faults' = Count(ok)
  /\ UNCHANGED <<upstream, txStore, acctStore, instStore, savedToken, owed>>

\* ---------------------------------------------------------- specification
Step(r) ==
  \/ \E tok \in Tokens, cnt \in Counts : SyncStart(r, tok, cnt)
  \/ \E tok \in Tokens : DeltaStart(r, tok, 0)
  \/ \E ok \in BOOLEAN : DeltaReadToken(r, ok)
  \/ \E ok \in BOOLEAN : ListAccounts(r, ok)
  \/ \E ok \in BOOLEAN : SyncUpsertInstitution(r, ok)
  \/ \E ok \in BOOLEAN : SyncUpsertAccount(r, ok)
  \/ \E ok \in BOOLEAN : SyncFetch(r, ok)
  \/ \E ok \in BOOLEAN : SyncUpsertTransaction(r, ok)
  \/ \E ok \in BOOLEAN : SyncWriteCursor(r, ok)
  \/ \E ok \in BOOLEAN : DeltaReadCursor(r, ok)
  \/ \E ok \in BOOLEAN : DeltaFetch(r, ok)
  \/ \E ok \in BOOLEAN : DeltaUpsertTransaction(r, ok)
  \/ \E ok \in BOOLEAN : DeltaWriteCursor(r, ok)

Env ==
  \/ \E a \in Accounts : Post(a)
  \/ \E tok \in SavedTokens, ok \in BOOLEAN : SaveToken(tok, ok)

\* invocations one after another: a single request slot is in use
Next == (\E r \in Serial : Step(r)) \/ Env

Spec == Init /\ [][Next]_vars

\* a run with more upstream transactions than one delta page, without faults:
\* account 1 starts with DeltaCount + PageExtra transactions, nothing is synced yet
PageExtra == 1

PageInit ==
  /\ upstream = [a \in Accounts |-> IF a = 1 THEN DeltaCount + PageExtra ELSE 0]
  /\ txStore = [a \in Accounts |-> {}]
  /\ acctStore = {}
  /\ instStore = {}
  /\ cursor = [a \in Accounts |-> NoTx]
  /\ savedToken = "none"
  /\ faults = 0
  /\ req = [r \in Reqs |-> IdleReq]
  /\ owed = [a \in Accounts |-> {}]

PageNext ==
  \E r \in Serial :
    \/ DeltaStart(r, "good", 0)
    \/ ListAccounts(r, TRUE)
    \/ DeltaReadCursor(r, TRUE)
    \/ DeltaFetch(r, TRUE)
    \/ DeltaUpsertTransaction(r, TRUE)
    \/ DeltaWriteCursor(r, TRUE)

SpecPage == PageInit /\ [][PageNext]_vars

\* runs whose caller supplies a page size to either entry point, without faults
AskNext ==
  \/ \E r \in Serial :
       \/ \E cnt \in Counts : SyncStart(r, "good", cnt)
       \/ \E cnt \in Counts : DeltaStart(r, "good", cnt)
       \/ ListAccounts(r, TRUE)
       \/ SyncUpsertInstitution(r, TRUE)
       \/ SyncUpsertAccount(r, TRUE)
       \/ SyncFetch(r, TRUE)
       \/ SyncUpsertTransaction(r, TRUE)
       \/ SyncWriteCursor(r, TRUE)
       \/ DeltaReadCursor(r, TRUE)
       \/ DeltaFetch(r, TRUE)
       \/ DeltaUpsertTransaction(r, TRUE)
       \/ DeltaWriteCursor(r, TRUE)
  \/ \E a \in Accounts : Post(a)

SpecAsk == Init /\ [][AskNext]_vars

\* request r waits for a call it has issued
InFlight(r) == req[r].pc \notin {"idle", "done"}

\* the pending call of request r returns or fails and the handler runs on
Resume(r) == InFlight(r) /\ Step(r)

\* every call eventually returns or fails: tellerGET aborts at its timeout,
\* a store call resolves to {data, error}
SpecLive == Spec /\ \A r \in Serial : WF_vars(Resume(r))

\* two invocations at once: both request slots are in use and their awaits
\* interleave; no call fails
ConcStep(r) ==
  \/ SyncStart(r, "good", DefaultCount)
  \/ DeltaStart(r, "good", 0)
  \/ ListAccounts(r, TRUE)
  \/ SyncUpsertInstitution(r, TRUE)
  \/ SyncUpsertAccount(r, TRUE)
  \/ SyncFetch(r, TRUE)
  \/ SyncUpsertTransaction(r, TRUE)
  \/ SyncWriteCursor(r, TRUE)
  \/ DeltaReadCursor(r, TRUE)
  \/ DeltaFetch(r, TRUE)
  \/ DeltaUpsertTransaction(r, TRUE)
  \/ DeltaWriteCursor(r, TRUE)

ConcNext ==
  \/ \E r \in Reqs : ConcStep(r)
  \/ \E a \in Accounts : Post(a)

SpecConc == Init /\ [][ConcNext]_vars

\* ------------------------------------------------------------- properties
InPass(q) == q.pc \in {"inst", "acct", "readcur", "fetch", "upsert", "cursor"}

\* this step ends the pass of request r on its current account
PassEnds(r) ==
  /\ InPass(req[r])
  /\ req'[r].pc = "done" \/ req'[r].idx # req[r].idx

\* the call completed by this step failed
CallFailed == faults' > faults

Max(S) == CHOOSE x \in S : \A y \in S : y <= x

\* the transaction upserts issued so far in the current pass of q
TxLog(q) == [i \in 1..Len(q.log) |-> q.log[i][2]]

\* the fetched (newest-first) sequence read oldest-first, up to its n-th element
OldestFirst(txns, n) == [i \in 1..n |-> txns[Len(txns) + 1 - i]]

\* C1: a stored cursor always holds the id of a transaction that is already
\* in the record store, whatever passes ran and whichever upserts failed.
C1_CursorIsStored ==
  \A a \in Accounts : cursor[a] # NoTx => cursor[a] \in txStore[a]

\* C2: a delta pass in which a transaction upsert failed ends with the
\* account's cursor equal to its value when the pass began.
C2_FailedPassKeepsCursor ==
  [][\A r \in Reqs :
       (req[r].kind = "delta" /\ PassEnds(r) /\ req[r].txFailed)
         => cursor'[Acct(req[r])] = req[r].cur0]_vars

\* C3: after a delta pass of account a in which an upsert failed, the next
\* delta pass of a that runs without any failure, the upstream data being
\* unchanged, leaves all the transactions the failed pass fetched in the store
\* and the cursor on the newest of them.
C3_RetryLeavesNoGap ==
  [][\A r \in Reqs :
       (/\ req[r].kind = "delta" /\ PassEnds(r)
        /\ ~req[r].bad /\ ~CallFailed
        /\ owed[Acct(req[r])] # {})
         => LET a == Acct(req[r]) IN
            /\ owed[a] \subseteq txStore'[a]
            /\ cursor'[a] = Max(owed[a])]_vars

\* C4: starting without a cursor and with more upstream transactions than one
\* page, once a delta run finds nothing new every upstream transaction is in
\* the store (none was skipped for good).
C4_NothingSkipped ==
  \A r \in Reqs :
    (/\ req[r].pc = "done" /\ req[r].kind = "delta" /\ req[r].quiet
     /\ req[r].resp.status = 200 /\ req[r].resp.new_transactions = 0)
      => \A a \in Accounts : 1..upstream[a] \subseteq txStore[a]

\* C5: a run that got its account list has, when it responds, begun the pass
\* of every listed account, whatever failed on the way.
C5_AllAccountsProcessed ==
  \A r \in Reqs :
    (req[r].pc = "done" /\ req[r].accounts # <<>>)
      => req[r].visited = Range(req[r].accounts)

\* C6: a run that got its account list and in which some account's pass failed
\* responds with a success carrying an error list that names the failed accounts.
C6_FailuresReported ==
  \A r \in Reqs :
    (req[r].pc = "done" /\ req[r].accounts # <<>> /\ req[r].errs # {})
      => /\ req[r].resp.status = 200
         /\ "errors" \in DOMAIN req[r].resp
         /\ req[r].resp.errors = req[r].errs

\* C7: a successful delta run that follows a successful delta run, nothing
\* having been posted upstream since the first began, writes no transaction
\* and leaves every cursor as the first run left it.
C7_Idempotent ==
  \A r \in Reqs :
    (/\ req[r].pc = "done" /\ req[r].kind = "delta" /\ req[r].second
     /\ req[r].quiet /\ req[r].resp.status = 200)
      => req[r].resp.new_transactions = 0 /\ cursor = req[r].curs0

C7_Witness ==
  \E r \in Reqs :
    /\ req[r].pc = "done" /\ req[r].kind = "delta" /\ req[r].second
    /\ req[r].quiet /\ req[r].resp.status = 200
    /\ \E a \in Accounts : cursor[a] # NoTx /\ cursor[a] \in txStore[a]

\* C8: no step moves an account's cursor to an older transaction.
C8_CursorMonotone ==
  [][\A a \in Accounts : cursor'[a] >= cursor[a]]_vars

C8_Witness ==
  \E r \in Reqs, a \in Accounts :
    req[r].curs0[a] # NoTx /\ cursor[a] > req[r].curs0[a]

\* C9: in a delta pass the transaction upserts issued so far are the fetched
\* (newest-first) sequence read from its oldest element on, and all of it once
\* the upserts are through.
C9_DeltaOldestFirst ==
  \A r \in Reqs :
    (req[r].kind = "delta" /\ req[r].pc \in {"upsert", "cursor"})
      => /\ Len(req[r].log) <= Len(req[r].txns)
         /\ TxLog(req[r]) = OldestFirst(req[r].txns, Len(req[r].log))
         /\ req[r].pc = "cursor" => Len(req[r].log) = Len(req[r].txns)

C9_Witness ==
  \E r \in Reqs :
    /\ req[r].kind = "delta" /\ req[r].pc = "cursor"
    /\ Len(req[r].txns) >= 2 /\ Len(req[r].log) = Len(req[r].txns)

\* C10: in a full-sync pass the transaction upserts issued so far are the
\* fetched (newest-first) sequence read from its oldest element on.
C10_FullOldestFirst ==
  \A r \in Reqs :
    (req[r].kind = "full" /\ req[r].pc \in {"upsert", "cursor"})
      => /\ Len(req[r].log) <= Len(req[r].txns)
         /\ TxLog(req[r]) = OldestFirst(req[r].txns, Len(req[r].log))
         /\ req[r].pc = "cursor" => Len(req[r].log) = Len(req[r].txns)

\* C11: a pass (full or delta) in which no call failed ends with the account's
\* cursor on the first element of the fetched (newest-first) sequence if it
\* fetched anything, and on its value from before the pass if it fetched nothing.
C11_CursorIsFirstFetched ==
  [][\A r \in Reqs :
       (PassEnds(r) /\ ~req[r].bad /\ ~CallFailed)
         => LET q == req[r]
                a == Acct(q) IN
            IF q.pc = "cursor"
            THEN Len(q.txns) > 0 /\ cursor'[a] = q.txns[1]
            ELSE /\ q.pc = "fetch" /\ q.txns = <<>>
                 /\ cursor'[a] = q.cur0 /\ cursor'[a] = cursor[a]]_vars

C11_Witness ==
  \E r \in Reqs :
    /\ req[r].pc = "done" /\ req[r].quiet /\ req[r].resp.status = 200
    /\ req[r].nTx >= 2
    /\ \E a \in Accounts : cursor[a] # req[r].curs0[a] /\ cursor[a] >= 2
    /\ \E a \in Accounts : cursor[a] = NoTx

\* request r takes this step
Steps(r) == req'[r] # req[r] /\ upstream' = upstream

\* C12: when the transaction fetch of an account fails, the step ends that
\* account's pass; no transaction upsert was or is issued in the pass, the
\* stores are as they were and the cursor has its value from before the pass.
C12_FetchFailureLeavesCursor ==
  [][\A r \in Reqs :
       (req[r].pc = "fetch" /\ Steps(r) /\ CallFailed)
         => LET a == Acct(req[r]) IN
            /\ PassEnds(r)
            /\ req[r].log = <<>> /\ req'[r].nTx = req[r].nTx
            /\ txStore' = txStore
            /\ cursor' = cursor /\ cursor'[a] = req[r].cur0]_vars

C12_Witness ==
  \E r \in Reqs :
    /\ req[r].pc = "done" /\ req[r].accounts # <<>>
    /\ req[r].resp.status = 500 /\ req[r].resp.error = "teller"
    /\ req[r].errs # {}

\* C13: no step removes a row from the record store, and an account's cursor
\* changes only by the cursor write of a pass on that account: what an earlier
\* account's pass wrote stays when a later account fails.
C13_EarlierWritesKept ==
  [][\A a \in Accounts :
       /\ txStore[a] \subseteq txStore'[a]
       /\ acctStore \subseteq acctStore'
       /\ instStore \subseteq instStore'
       /\ cursor'[a] # cursor[a]
            => \E r \in Reqs : /\ req[r].pc = "cursor" /\ Acct(req[r]) = a
                               /\ Steps(r) /\ ~CallFailed]_vars

C13_Witness ==
  \E r \in Reqs, a \in Accounts :
    /\ req[r].pc = "done" /\ req[r].accounts # <<>> /\ req[r].resp.status = 500
    /\ a \in req[r].visited /\ req[r].errs # {} /\ a \notin req[r].errs
    /\ cursor[a] # req[r].curs0[a] /\ cursor[a] \in txStore[a]

\* request r has not entered its account loop yet
BeforeAccounts(q) == q.pc \in {"idle", "done", "token", "list"}

\* C14: a run whose access credential is missing, or is rejected by the account
\* listing, ends there with an error response; no step of a run before its
\* account loop changes a store or a cursor, and the run that ends there has
\* issued no upsert and visited no account.
C14_CredentialErrorIsFatal ==
  [][\A r \in Reqs :
       LET q == req[r]
           q1 == req'[r] IN
       /\ (Steps(r) /\ q.pc = "list" /\ q.token = "bad")
            => q1.pc = "done" /\ q1.resp.status = 500
       /\ (Steps(r) /\ q.pc = "token" /\ ~CallFailed /\ savedToken = "none")
            => q1.pc = "done" /\ q1.resp.status = 400
       /\ (Steps(r) /\ q.pc \in {"idle", "done"} /\ q1.kind = "full" /\ q1.asked > 0
             /\ q1.pc # "list")
            => q1.pc = "done" /\ q1.resp.status = 400
       /\ (Steps(r) /\ BeforeAccounts(q) /\ q1.pc = "done")
            => /\ q1.resp.status \in {400, 500}
               /\ q1.visited = {} /\ q1.nTx = 0 /\ q1.accounts = <<>>
               /\ txStore' = txStore /\ acctStore' = acctStore
               /\ instStore' = instStore
               /\ cursor' = cursor /\ cursor' = q1.curs0]_vars

C14_Witness ==
  \E r \in Reqs :
    /\ req[r].pc = "done" /\ req[r].resp.status = 500 /\ req[r].quiet
    /\ req[r].accounts = <<>> /\ req[r].visited = {}
    /\ \E a \in Accounts : upstream[a] > cursor[a]

\* C15: after a delta run that succeeded with no failed call and no new post,
\* every account it visited that had no cursor and has no transaction upstream
\* is in the account store, its cursor is still unset and no transaction was
\* written for it.
C15_EmptyAccountUpserted ==
  \A r \in Reqs :
    (/\ req[r].pc = "done" /\ req[r].kind = "delta"
     /\ req[r].resp.status = 200 /\ req[r].quiet)
      => \A a \in req[r].visited :
           (req[r].curs0[a] = NoTx /\ upstream[a] = 0)
             => a \in acctStore /\ cursor[a] = NoTx /\ txStore[a] = {}

\* the summary of a successful response counts the accounts processed and the
\* transaction upserts issued
SummaryOf(q) ==
  /\ DOMAIN q.resp = {"status", "ok", "accounts", "transactions"}
  /\ q.resp.ok
  /\ q.resp.accounts = Cardinality(q.visited)
  /\ q.resp.transactions = q.nTx

\* C16: every invocation of either entry point that ended in success returned
\* ok = true, accounts = the number of accounts processed and transactions =
\* the number of transaction upserts issued in the run.
C16_SummaryOnSuccess ==
  \A r \in Reqs :
    (req[r].pc = "done" /\ req[r].resp.status = 200) => SummaryOf(req[r])

\* C17: while a pass of a run whose caller supplied the positive page size p
\* handles what it fetched, it fetched at most p transactions and has issued at
\* most p transaction upserts.
C17_PageSizeBoundsPass ==
  \A r \in Reqs :
    (req[r].asked > 0 /\ req[r].pc \in {"upsert", "cursor"})
      => Len(req[r].txns) <= req[r].asked /\ Len(req[r].log) <= req[r].asked

\* C18: the step that issues the cursor write of a pass ends the pass, comes
\* after one upsert for every fetched transaction and writes no other store;
\* a step that issues a transaction upsert leaves every cursor alone, and no
\* other step of a pass changes a cursor.
C18_CursorWriteIsLast ==
  [][\A r \in Reqs :
       LET q == req[r] IN
       /\ (Steps(r) /\ q.pc = "cursor")
            => /\ PassEnds(r)
               /\ Len(q.log) = Len(q.txns) /\ Range(TxLog(q)) = Range(q.txns)
               /\ req'[r].nTx = q.nTx
               /\ txStore' = txStore /\ acctStore' = acctStore
               /\ instStore' = instStore
       /\ (Steps(r) /\ req'[r].nTx > q.nTx)
            => q.pc = "upsert" /\ cursor' = cursor
       /\ (Steps(r) /\ InPass(q) /\ q.pc # "cursor") => cursor' = cursor]_vars

C18_Witness ==
  \E r \in Reqs, a \in Accounts :
    /\ InPass(req[r]) /\ Acct(req[r]) # a /\ a \in req[r].visited
    /\ cursor[a] # req[r].curs0[a]
    /\ cursor[a] >= 2 /\ {1, 2} \subseteq txStore[a]

\* C19: an invocation in flight has sent no response, a finished one has sent
\* its response, and every invocation in flight eventually finishes, whichever
\* of its calls fail.
C19_EveryRunResponds ==
  /\ [](\A r \in Reqs : /\ InFlight(r) => req[r].resp = NoResp
                        /\ req[r].pc = "done" => req[r].resp.status \in {200, 400, 500})
  /\ \A r \in Reqs : InFlight(r) ~> (req[r].pc = "done")

C19_Witness ==
  \E r \in Reqs :
    /\ req[r].pc = "done" /\ req[r].resp.status = 500
    /\ Cardinality(req[r].visited) >= 2 /\ faults > 0

\* C20: while two invocations are in flight together no step moves an
\* account's cursor to an older transaction, and whenever both request slots
\* have finished, the cursor of every account with stored transactions is the
\* newest transaction that was upserted for it.
C20_OverlapKeepsCursor ==
  /\ [][(\A r \in Reqs : InFlight(r))
          => \A a \in Accounts : cursor'[a] >= cursor[a]]_vars
  /\ []((\A r \in Reqs : req[r].pc = "done" /\ req[r].resp.status = 200)
          => \A a \in Accounts : txStore[a] # {} => cursor[a] = Max(txStore[a]))

====
